---- MODULE Spec2Model ----
(***************************************************************************)
(* Model of the two converters of word-order-illustrator-tools:            *)
(*   woi_json_from_text.py  (compact notation -> WOI record)               *)
(*   text_from_woi_json.py  (WOI record -> compact notation)               *)
(* A Python str is a sequence of Unicode code points, so a string is a     *)
(* sequence of naturals here.  None is modelled by the integer -1 and a    *)
(* raised exception inside a pure function by the integer -2.              *)
(***************************************************************************)
EXTENDS Integers, Sequences, FiniteSets, TLC

VARIABLES prog, pc, text, segs, data, woi_json, d, t, pos, stdout, hop,
          fin, fout, fpc

vars == <<prog, pc, text, segs, data, woi_json, d, t, pos, stdout, hop,
          fin, fout, fpc>>

mainvars == <<prog, pc, text, segs, data, woi_json, d, t, pos, stdout, hop>>

funvars == <<fin, fout, fpc>>

(***************************************************************************)
(* Code points.                                                            *)
(***************************************************************************)
PIPE == 124

LBRACE == 123

RBRACE == 125

DPIPE == 8214

XMARK == 8339

SUB0 == 8320

ASCII0 == 48

NEWLINE == 10

None == -1

Raised == -2

\* the literal "U+2080 .. U+2089" passed as the digits argument
SUBSCRIPT_DIGITS == [i \in 1..10 |-> SUB0 + i - 1]

IsSubDigit(ch) == ch >= SUB0 /\ ch <= SUB0 + 9

IsAsciiDigit(ch) == ch >= ASCII0 /\ ch <= ASCII0 + 9

\* the character class of the split pattern in parse
IsIndexChar(ch) == IsSubDigit(ch) \/ ch = XMARK

(***************************************************************************)
(* Index codec.                                                            *)
(***************************************************************************)
RECURSIVE EncodeLoop(_, _, _)
EncodeLoop(n, digits, s) ==
  IF n > 0
  THEN EncodeLoop(n \div Len(digits), digits, <<digits[(n % Len(digits)) + 1]>> \o s)
  ELSE s

integer_positional_notation(number, digits) ==
  IF number = 0 THEN <<digits[1]>> ELSE EncodeLoop(number, digits, <<>>)

subscript_positional_notation(number) ==
  integer_positional_notation(number, SUBSCRIPT_DIGITS)

\* digits.index(ch): zero-based position of ch, Raised (ValueError) if absent
DigitsIndex(digits, ch) ==
  IF \E k \in 1..Len(digits) : digits[k] = ch
  THEN (CHOOSE k \in 1..Len(digits) :
          digits[k] = ch /\ \A j \in 1..(k - 1) : digits[j] # ch) - 1
  ELSE Raised

RECURSIVE Pow(_, _)
Pow(b, e) == IF e = 0 THEN 1 ELSE b * Pow(b, e - 1)

\* the while loop: i runs from the last character down, magnitude up
RECURSIVE DecodeLoop(_, _, _, _, _)
DecodeLoop(pn, digits, i, magnitude, n) ==
  IF i >= 1
  THEN LET v == DigitsIndex(digits, pn[i])
       IN IF v = Raised THEN Raised
          ELSE DecodeLoop(pn, digits, i - 1, magnitude + 1,
                          n + v * Pow(Len(digits), magnitude))
  ELSE n

\* faulty variant: the digits are weighted from the left instead of from the right
integer_from_positional_notation_leftweighted(positional_notation, digits) ==
  DecodeLoop([k \in 1..Len(positional_notation) |->
                positional_notation[Len(positional_notation) + 1 - k]],
             digits, Len(positional_notation), 0, 0)

integer_from_positional_notation(positional_notation, digits) ==
  DecodeLoop(positional_notation, digits, Len(positional_notation), 0, 0)

integer_from_subscript_positional_notation(positional_notation) ==
  integer_from_positional_notation(positional_notation, SUBSCRIPT_DIGITS)

(***************************************************************************)
(* Values the variables take while a specification does not use them.      *)
(***************************************************************************)
MainIdle ==
  /\ prog = "none" /\ pc = "idle" /\ text = <<>> /\ segs = <<>> /\ data = <<>>
  /\ woi_json = <<>> /\ d = <<>> /\ t = <<>> /\ pos = 0 /\ stdout = <<>>
  /\ hop = 0

FunIdle == fin = <<>> /\ fout = <<>> /\ fpc = "idle"

(***************************************************************************)
(* Index codec on its own: encode n, then decode the result.               *)
(***************************************************************************)
MaxNumber == 10000

CodecInit ==
  /\ MainIdle
  /\ fin \in 0..MaxNumber
  /\ fout = <<>>
  /\ fpc = "encode"

CodecEncode ==
  /\ fpc = "encode"
  /\ fout' = <<subscript_positional_notation(fin)>>
  /\ fpc' = "decode"
  /\ UNCHANGED <<fin, mainvars>>

CodecDecode ==
  /\ fpc = "decode"
  /\ fout' = Append(fout, integer_from_subscript_positional_notation(fout[1]))
  /\ fpc' = "done"
  /\ UNCHANGED <<fin, mainvars>>

CodecNext == CodecEncode \/ CodecDecode

SpecCodec == CodecInit /\ [][CodecNext]_vars

\* C8: for every n in [0, 10000] decoding the encoding of n returns n, and
\* 0 is encoded as the single zero glyph U+2080.
C8_CodecRoundTrip ==
  /\ (fpc = "done" => fout[2] = fin)
  /\ (fpc # "encode" /\ fin = 0 => fout[1] = <<SUB0>>)

\* 10000 was encoded as five glyphs and decoded
C8_Witness ==
  fpc = "done" /\ fin = 10000 /\ fout[1] = <<SUB0 + 1, SUB0, SUB0, SUB0, SUB0>>

(***************************************************************************)
(* Notation normalizer.  Positions are one-based and match ends inclusive  *)
(* (Python: zero-based start, exclusive end).                              *)
(***************************************************************************)
\* re.sub of a two-character literal a b by the character c
RECURSIVE ReSubPair(_, _, _, _)
ReSubPair(s, a, b, c) ==
  IF Len(s) < 2 THEN s
  ELSE IF s[1] = a /\ s[2] = b
       THEN <<c>> \o ReSubPair(SubSeq(s, 3, Len(s)), a, b, c)
       ELSE <<s[1]>> \o ReSubPair(Tail(s), a, b, c)

IsDigitOf(kind, ch) == IF kind = "ascii" THEN IsAsciiDigit(ch) ELSE IsSubDigit(ch)

\* length of the maximal run of digits of the kind that starts at position i
RunLen(s, i, kind) ==
  LET ks == {k \in 0..(Len(s) - i + 1) :
               \A j \in i..(i + k - 1) : IsDigitOf(kind, s[j])}
  IN CHOOSE k \in ks : \A k2 \in ks : k2 <= k

\* position of the closing brace of a match of "{[digits]+}" at i, 0 if none
MatchEnd(s, i, kind) ==
  IF s[i] # LBRACE THEN 0
  ELSE LET k == RunLen(s, i + 1, kind)
       IN IF k >= 1 /\ i + k + 1 <= Len(s) /\ s[i + k + 1] = RBRACE
          THEN i + k + 1 ELSE 0

\* re.finditer: the leftmost non-overlapping matches, in order
RECURSIVE FindIter(_, _, _)
FindIter(s, i, kind) ==
  IF i > Len(s) THEN <<>>
  ELSE LET e == MatchEnd(s, i, kind)
       IN IF e > 0 THEN <<[start |-> i, end |-> e]>> \o FindIter(s, e + 1, kind)
          ELSE FindIter(s, i + 1, kind)

\* the inner function f: braces are kept, a digit ch becomes digits[int(ch)]
NormF(g) ==
  [k \in 1..Len(g) |->
     IF g[k] = LBRACE \/ g[k] = RBRACE THEN g[k]
     ELSE SUBSCRIPT_DIGITS[(g[k] - ASCII0) + 1]]

\* the for loop over the matches found in the string src
RECURSIVE NormLoop(_, _, _)
NormLoop(s, src, ms) ==
  IF ms = <<>> THEN s
  ELSE LET m == Head(ms)
       IN NormLoop(SubSeq(s, 1, m.start - 1)
                     \o NormF(SubSeq(src, m.start, m.end))
                     \o SubSeq(s, m.end + 1, Len(s)),
                   src, Tail(ms))

\* re.sub("{([subscript digits]+)}", "\\1", s)
RECURSIVE StripBraces(_, _)
StripBraces(s, i) ==
  IF i > Len(s) THEN <<>>
  ELSE LET e == MatchEnd(s, i, "sub")
       IN IF e > 0 THEN SubSeq(s, i + 1, e - 1) \o StripBraces(s, e + 1)
          ELSE <<s[i]>> \o StripBraces(s, i + 1)

\* faulty variant: the brackets are stripped before the ASCII digits are converted
with_ascii_compatibility_normalized_stripfirst(s) ==
  LET s1 == ReSubPair(s, PIPE, PIPE, DPIPE)
      s2 == ReSubPair(s1, LBRACE, RBRACE, XMARK)
      s3 == StripBraces(s2, 1)
  IN NormLoop(s3, s3, FindIter(s3, 1, "ascii"))

with_ascii_compatibility_normalized(s) ==
  LET s1 == ReSubPair(s, PIPE, PIPE, DPIPE)
      s2 == ReSubPair(s1, LBRACE, RBRACE, XMARK)
      s3 == NormLoop(s2, s2, FindIter(s2, 1, "ascii"))
  IN StripBraces(s3, 1)

(***************************************************************************)
(* Bounded strings.                                                        *)
(***************************************************************************)
SeqsUpTo(A, n) == UNION {[1..k -> A] : k \in 0..n}

(***************************************************************************)
(* Normalizer on its own: normalize the input, then normalize the result.  *)
(***************************************************************************)
MaxNormLen == 5

\* pipe, braces, the ASCII digit 1, subscript 1, the marker, the double
\* pipe and the letter a
NormAlphabet == {PIPE, LBRACE, RBRACE, ASCII0 + 1, SUB0 + 1, XMARK, DPIPE, 97}

NormInit ==
  /\ MainIdle
  /\ fin \in SeqsUpTo(NormAlphabet, MaxNormLen)
  /\ fout = <<>>
  /\ fpc = "first"

NormFirst ==
  /\ fpc = "first"
  /\ fout' = <<with_ascii_compatibility_normalized(fin)>>
  /\ fpc' = "second"
  /\ UNCHANGED <<fin, mainvars>>

NormSecond ==
  /\ fpc = "second"
  /\ fout' = Append(fout, with_ascii_compatibility_normalized(fout[1]))
  /\ fpc' = "done"
  /\ UNCHANGED <<fin, mainvars>>

NormNext == NormFirst \/ NormSecond

SpecNorm == NormInit /\ [][NormNext]_vars

\* an opening brace followed, directly or after subscript digits only, by
\* another opening brace
HasBraceInBrace(s) ==
  \E i \in 1..Len(s) : \E j \in (i + 1)..Len(s) :
    /\ s[i] = LBRACE /\ s[j] = LBRACE
    /\ \A k \in (i + 1)..(j - 1) : IsSubDigit(s[k])

\* C7 as stated: normalizing a normalized string changes nothing, for every
\* input string.
C7_Idempotent_Original == fpc = "done" => fout[2] = fout[1]

\* C7 amended: normalizing a normalized string changes nothing, for every
\* input in which no opening brace is followed, directly or after a run of
\* subscript digits only, by another opening brace.
C7_Idempotent ==
  fpc = "done" /\ ~HasBraceInBrace(fin) => fout[2] = fout[1]

\* "||{1}" : two pipes and a braced ASCII digit, normalized twice
C7_Witness ==
  /\ fpc = "done"
  /\ fin = <<PIPE, PIPE, LBRACE, ASCII0 + 1, RBRACE>>
  /\ fout[1] = <<DPIPE, SUB0 + 1>>
  /\ fout[2] = fout[1]

(***************************************************************************)
(* Notation lexer (parse).  A chunk is [string, index]; the result is      *)
(* [ok, chunks] with ok = FALSE when decoding an index run raised.         *)
(***************************************************************************)
IndexRunLen(s, i) ==
  LET ks == {k \in 0..(Len(s) - i + 1) :
               \A j \in i..(i + k - 1) : IsIndexChar(s[j])}
  IN CHOOSE k \in ks : \A k2 \in ks : k2 <= k

\* re.split with a capturing group: fragment, run, fragment, ..., fragment
RECURSIVE ReSplit(_, _, _)
ReSplit(s, i, cur) ==
  IF i > Len(s) THEN <<cur>>
  ELSE IF IsIndexChar(s[i])
       THEN LET k == IndexRunLen(s, i)
            IN <<cur, SubSeq(s, i, i + k - 1)>> \o ReSplit(s, i + k, <<>>)
       ELSE ReSplit(s, i + 1, Append(cur, s[i]))

\* the while loop of parse over the token list, two tokens at a time
RECURSIVE ParseLoop(_, _, _)
ParseLoop(lst, i, text_chunks) ==
  IF i > Len(lst) THEN [ok |-> TRUE, chunks |-> text_chunks]
  ELSE LET nxt == i + 1
           idx == IF nxt > Len(lst) \/ lst[nxt] = <<XMARK>> THEN None
                  ELSE integer_from_subscript_positional_notation(lst[nxt])
       IN IF idx = Raised THEN [ok |-> FALSE, chunks |-> <<>>]
          ELSE ParseLoop(lst, i + 2,
                         Append(text_chunks, [string |-> lst[i], index |-> idx]))

parse(s) ==
  LET lst0 == ReSplit(s, 1, <<>>)
      lst == IF Len(lst0) > 0 /\ lst0[Len(lst0)] = <<>>
             THEN SubSeq(lst0, 1, Len(lst0) - 1) ELSE lst0
  IN ParseLoop(lst, 1, <<>>)

(***************************************************************************)
(* Equivalency builder (woi_data_from).  Chunk positions are zero-based as *)
(* in the record.                                                          *)
(***************************************************************************)
\* faulty variant: a second chunk of the language with the same index is dropped
RECURSIVE BuildChunkLoop_firstonly(_, _, _, _, _)
BuildChunkLoop_firstonly(chunks, i, index, eq, found_in_e) ==
  IF i > Len(chunks) THEN [eq |-> eq, found |-> found_in_e]
  ELSE IF chunks[i].index = index
       THEN BuildChunkLoop_firstonly(chunks, i + 1, index,
              IF ~found_in_e THEN Append(eq, <<i - 1>>) ELSE eq, TRUE)
       ELSE BuildChunkLoop_firstonly(chunks, i + 1, index, eq, found_in_e)

\* for i, x in enumerate(e["text_chunks"])
RECURSIVE BuildChunkLoop(_, _, _, _, _)
BuildChunkLoop(chunks, i, index, eq, found_in_e) ==
  IF i > Len(chunks) THEN [eq |-> eq, found |-> found_in_e]
  ELSE IF chunks[i].index = index
       THEN BuildChunkLoop(chunks, i + 1, index,
              IF ~found_in_e THEN Append(eq, <<i - 1>>)
              ELSE [eq EXCEPT ![Len(eq)] = @ \o <<i - 1>>],
              TRUE)
       ELSE BuildChunkLoop(chunks, i + 1, index, eq, found_in_e)

\* for e in data
RECURSIVE BuildLangLoop(_, _, _, _, _)
BuildLangLoop(dat, k, index, eq, was_index_found) ==
  IF k > Len(dat) THEN [eq |-> eq, found |-> was_index_found]
  ELSE LET r == BuildChunkLoop(dat[k].text_chunks, 1, index, eq, FALSE)
       IN BuildLangLoop(dat, k + 1, index,
                        IF ~r.found THEN Append(r.eq, <<>>) ELSE r.eq,
                        was_index_found \/ r.found)

\* faulty variant: the class that no language contributed to is discarded
RECURSIVE BuildWhileLoop_discard(_, _, _)
BuildWhileLoop_discard(dat, index, woi_equivalencies) ==
  LET r == BuildLangLoop(dat, 1, index, <<>>, FALSE)
  IN IF ~r.found THEN woi_equivalencies
     ELSE BuildWhileLoop_discard(dat, index + 1, Append(woi_equivalencies, r.eq))

\* faulty variant: the scan runs past unused indices, up to the highest index used
RECURSIVE BuildWhileLoop_pastgaps(_, _, _)
BuildWhileLoop_pastgaps(dat, index, woi_equivalencies) ==
  LET r == BuildLangLoop(dat, 1, index, <<>>, FALSE)
      more == \E k \in 1..Len(dat) : \E p \in 1..Len(dat[k].text_chunks) :
                dat[k].text_chunks[p].index > index
  IN IF ~r.found /\ ~more THEN Append(woi_equivalencies, r.eq)
     ELSE BuildWhileLoop_pastgaps(dat, index + 1, Append(woi_equivalencies, r.eq))

\* while True: build the class of index, append it, stop if it is empty
RECURSIVE BuildWhileLoop(_, _, _)
BuildWhileLoop(dat, index, woi_equivalencies) ==
  LET r == BuildLangLoop(dat, 1, index, <<>>, FALSE)
  IN IF ~r.found THEN Append(woi_equivalencies, r.eq)
     ELSE BuildWhileLoop(dat, index + 1, Append(woi_equivalencies, r.eq))

\* the lambda f: the strings of a chunk list
ChunkStrings(x) == [p \in 1..Len(x) |-> x[p].string]

\* faulty variant: the scan starts at index 0
woi_data_from_zerobased(dat) ==
  [sentences |-> [k \in 1..Len(dat) |->
                    <<dat[k].language, ChunkStrings(dat[k].text_chunks)>>],
   equivalency |-> BuildWhileLoop(dat, 0, <<>>)]

woi_data_from(dat) ==
  [sentences |-> [k \in 1..Len(dat) |->
                    <<dat[k].language, ChunkStrings(dat[k].text_chunks)>>],
   equivalency |-> BuildWhileLoop(dat, 1, <<>>)]

(***************************************************************************)
(* Equivalency builder on its own.                                         *)
(***************************************************************************)
MaxLangs == 2

MaxChunks == 3

MaxIndex == 3

\* the language identifier and the fragment used at a position
LangAt(k) == <<100 + k>>

FragAt(p) == <<32, 96 + p>>

Sum(f) ==
  LET RECURSIVE SumTo(_)
      SumTo(k) == IF k = 0 THEN 0 ELSE f[k] + SumTo(k - 1)
  IN SumTo(Len(f))

\* chunk counts of 1..nmax languages with at most cmax chunks in all
Shapes(nmin, nmax, cmax) ==
  UNION {{lens \in [1..nl -> 0..cmax] : Sum(lens) <= cmax} : nl \in nmin..nmax}

\* one list of indices per language: the indices of a shape's chunks, drawn
\* from none and 0..MaxIndex
IndexListsOf(lens) ==
  LET RECURSIVE Build(_)
      Build(k) ==
        IF k = 0 THEN {<<>>}
        ELSE {Append(pre, l) : pre \in Build(k - 1),
                               l \in [1..lens[k] -> {None} \cup (0..MaxIndex)]}
  IN Build(Len(lens))

DataOf(idxs) ==
  [k \in 1..Len(idxs) |->
     [language |-> LangAt(k),
      text_chunks |-> [p \in 1..Len(idxs[k]) |->
                         [string |-> FragAt(p), index |-> idxs[k][p]]]]]

\* the chunk lists of Scenario A: en|It1 is2 so2.  fr|C'1 est2 ainsi3.
ScenarioAIndices == << <<1, 2, 2, None>>, <<1, 2, 3, None>> >>

ScenarioAEquivalency ==
  << << <<0>>, <<0>> >>, << <<1, 2>>, <<1>> >>, << <<>>, <<2>> >>, << <<>>, <<>> >> >>

BuildInit ==
  /\ MainIdle
  /\ \E idxs \in UNION {IndexListsOf(lens) : lens \in Shapes(1, MaxLangs, MaxChunks)}
                  \cup {ScenarioAIndices} :
       fin = DataOf(idxs)
  /\ fout = <<>>
  /\ fpc = "build"

Build ==
  /\ fpc = "build"
  /\ fout' = <<woi_data_from(fin)>>
  /\ fpc' = "done"
  /\ UNCHANGED <<fin, mainvars>>

BuildNext == Build

SpecBuild == BuildInit /\ [][BuildNext]_vars

Range(f) == {f[x] : x \in DOMAIN f}

\* the indices carried by the chunks of any language
UsedIndices(dat) ==
  UNION {{dat[k].text_chunks[p].index : p \in 1..Len(dat[k].text_chunks)} :
           k \in 1..Len(dat)}

\* zero-based positions of the chunks of a list that carry the index
PositionsWith(chunks, index) ==
  {p \in 0..(Len(chunks) - 1) : chunks[p + 1].index = index}

IsAscending(l) == \A a \in 1..Len(l) : \A b \in (a + 1)..Len(l) : l[a] < l[b]

\* the smallest positive integer that no chunk carries as its index
FirstUnused(dat) ==
  CHOOSE j \in 1..(Cardinality(UsedIndices(dat)) + 1) :
    /\ j \notin UsedIndices(dat)
    /\ \A j2 \in 1..(j - 1) : j2 \in UsedIndices(dat)

HighestUsed(dat) ==
  LET u == UsedIndices(dat) \cap Nat
  IN IF u = {} THEN 0 ELSE CHOOSE m \in u : \A m2 \in u : m2 <= m

FullyEmpty(class) == \A k \in 1..Len(class) : class[k] = <<>>

BuiltTable == fout[1].equivalency

\* C4: every class of the built table has one entry per language, in
\* sentence order, and the entry of class i (zero-based) for a language is
\* the ascending list of the positions of its chunks whose index is i + 1;
\* a chunk whose index is none is in no class; Scenario A gives its table.
C4_ClassContent ==
  fpc = "done" =>
    /\ \A c \in 1..Len(BuiltTable) :
         /\ Len(BuiltTable[c]) = Len(fin)
         /\ \A k \in 1..Len(fin) :
              /\ IsAscending(BuiltTable[c][k])
              /\ Range(BuiltTable[c][k]) = PositionsWith(fin[k].text_chunks, (c - 1) + 1)
    /\ \A k \in 1..Len(fin) : \A p \in PositionsWith(fin[k].text_chunks, None) :
         \A c \in 1..Len(BuiltTable) : p \notin Range(BuiltTable[c][k])
    /\ (fin = DataOf(ScenarioAIndices) => BuiltTable = ScenarioAEquivalency)

\* Scenario A was built: a class with two positions of one language, and
\* a chunk without index
C4_Witness ==
  /\ fpc = "done"
  /\ fin = DataOf(ScenarioAIndices)
  /\ BuiltTable[2][1] = <<1, 2>>
  /\ fin[1].text_chunks[4].index = None

\* C5 as stated: the built table is empty or its last class has a non-empty
\* entry.
C5_NoTrailingEmpty_Original ==
  fpc = "done" =>
    \/ BuiltTable = <<>>
    \/ ~FullyEmpty(BuiltTable[Len(BuiltTable)])

\* C5 amended: the built table is never empty; its last class is empty for
\* every language (the class that ended the scan is kept) and every class
\* before the last has at least one non-empty entry.
C5_TrailingEmptyKept ==
  fpc = "done" =>
    /\ Len(BuiltTable) >= 1
    /\ FullyEmpty(BuiltTable[Len(BuiltTable)])
    /\ \A c \in 1..(Len(BuiltTable) - 1) : ~FullyEmpty(BuiltTable[c])

\* two languages, indices 1 and 2 in use: two classes and the empty third
C5_Witness ==
  /\ fpc = "done"
  /\ Len(BuiltTable) = 3
  /\ Len(fin) = 2
  /\ BuiltTable[3] = << <<>>, <<>> >>
  /\ BuiltTable[1][1] # <<>>

\* C6 as stated: the table has as many classes as the highest index carried
\* by any chunk.
C6_TableSize_Original ==
  fpc = "done" => Len(BuiltTable) = HighestUsed(fin)

\* C6 amended: the table has as many classes as the smallest positive
\* integer that no chunk of any language carries as its index (one class
\* when no chunk carries index 1).
C6_TableSize ==
  fpc = "done" => Len(BuiltTable) = FirstUnused(fin)

\* indices 1 and 3 are used, 2 is not: two classes
C6_Witness ==
  /\ fpc = "done"
  /\ UsedIndices(fin) = {1, 3}
  /\ Len(BuiltTable) = 2

\* C10: a chunk's position is in some class iff its index k is at least 1
\* and every index 1..k is carried by some chunk; it is then in class k - 1
\* (zero-based) and in no other; the scan ends at the first unused index.
C10_WhichChunks ==
  fpc = "done" =>
    /\ \A k \in 1..Len(fin) : \A p \in 0..(Len(fin[k].text_chunks) - 1) :
         LET idx == fin[k].text_chunks[p + 1].index
             inside == {c \in 1..Len(BuiltTable) : p \in Range(BuiltTable[c][k])}
         IN /\ (inside # {}) <=>
                 (idx >= 1 /\ \A j \in 1..idx : j \in UsedIndices(fin))
            /\ (inside # {} => inside = {(idx - 1) + 1})
            /\ (idx = 0 \/ idx > FirstUnused(fin) => inside = {})
    /\ Len(BuiltTable) = FirstUnused(fin)

\* one chunk indexed 0, one indexed 1 (in class 0), one indexed 3 above the
\* unused index 2 (in no class)
C10_Witness ==
  /\ fpc = "done"
  /\ Len(fin) = 2
  /\ UsedIndices(fin) = {0, 1, 3}
  /\ Len(BuiltTable) = 2

(***************************************************************************)
(* Equivalency resolver and notation renderer (text_from_woi_json.py).     *)
(***************************************************************************)
\* for eqi, eql in enumerate(woi_equivalencies): the zero-based position of
\* the first class that holds ci for sentence si, None when no class does,
\* Raised (IndexError) when a class reached has no entry for si
RECURSIVE index_from_woi_data_loop(_, _, _, _)
index_from_woi_data_loop(ci, si, woi_equivalencies, eqi) ==
  IF eqi >= Len(woi_equivalencies) THEN None
  ELSE LET eql == woi_equivalencies[eqi + 1]
       IN IF si >= Len(eql) THEN Raised
          ELSE IF ci \in Range(eql[si + 1]) THEN eqi
               ELSE index_from_woi_data_loop(ci, si, woi_equivalencies, eqi + 1)

index_from_woi_data(ci, si, woi_equivalencies) ==
  index_from_woi_data_loop(ci, si, woi_equivalencies, 0)

chunks_from_woi_data(woi_chunks, woi_equivalencies, si) ==
  [c \in 1..Len(woi_chunks) |->
     [string |-> woi_chunks[c],
      index |-> index_from_woi_data(c - 1, si, woi_equivalencies)]]

\* [ok, data]; ok = FALSE on KeyError, on a pair that does not unpack into
\* two values, and on IndexError in index_from_woi_data
data_from_woi_data(woi_data) ==
  IF "sentences" \notin DOMAIN woi_data \/ "equivalency" \notin DOMAIN woi_data
  THEN [ok |-> FALSE, data |-> <<>>]
  ELSE LET woi_sentences == woi_data.sentences
           woi_equivalencies == woi_data.equivalency
           bad(si) ==
             \/ Len(woi_sentences[si]) # 2
             \/ \E c \in 1..Len(woi_sentences[si][2]) :
                  index_from_woi_data(c - 1, si - 1, woi_equivalencies) = Raised
       IN IF \E si \in 1..Len(woi_sentences) : bad(si)
          THEN [ok |-> FALSE, data |-> <<>>]
          ELSE [ok |-> TRUE,
                data |-> [si \in 1..Len(woi_sentences) |->
                            [language |-> woi_sentences[si][1],
                             text_chunks |-> chunks_from_woi_data(
                               woi_sentences[si][2], woi_equivalencies, si - 1)]]]

\* the lambda f of textify
IndexText(n) == IF n = None THEN <<XMARK>> ELSE subscript_positional_notation(n)

RECURSIVE textify_loop(_, _, _)
textify_loop(text_chunks, k, acc) ==
  IF k > Len(text_chunks) THEN acc
  ELSE textify_loop(text_chunks, k + 1,
                    acc \o text_chunks[k].string \o IndexText(text_chunks[k].index))

textify(text_chunks) == textify_loop(text_chunks, 1, <<>>)

\* str.split(sep) for a one-character separator
RECURSIVE PySplit(_, _, _, _)
PySplit(s, sep, k, cur) ==
  IF k > Len(s) THEN <<cur>>
  ELSE IF s[k] = sep THEN <<cur>> \o PySplit(s, sep, k + 1, <<>>)
       ELSE PySplit(s, sep, k + 1, Append(cur, s[k]))

(***************************************************************************)
(* The two programs.  One invocation runs start -> loop -> done, or ends   *)
(* in error when an exception propagates out of entrypoint.  The record    *)
(* written by woi_json_from_text is kept as a value (json.dumps and        *)
(* json.loads belong to the library).  Feed hands the line written by one  *)
(* program to the other as its argument, once.                             *)
(***************************************************************************)
MaxTextLen == 5

MaxRecLangs == 2

MaxRecChunks == 2

MaxClasses == 2

\* pipe, double pipe, subscript 1, the marker and the letter a
TextAlphabet == {PIPE, DPIPE, SUB0 + 1, XMARK, 97}

\* en|It1 is2 so2.  ||  fr|C'1 est2 ainsi3.   (module docstrings)
ScenarioAText ==
  <<101, 110, PIPE, 73, 116, SUB0 + 1, 32, 105, 115, SUB0 + 2,
    32, 115, 111, SUB0 + 2, 46, DPIPE, 102, 114, PIPE, 67, 39, SUB0 + 1,
    101, 115, 116, SUB0 + 2, 32, 97, 105, 110, 115, 105, SUB0 + 3, 46>>

ScenarioASentences ==
  << << <<101, 110>>, << <<73, 116>>, <<32, 105, 115>>, <<32, 115, 111>>, <<46>> >> >>,
     << <<102, 114>>, << <<67, 39>>, <<101, 115, 116>>, <<32, 97, 105, 110, 115, 105>>, <<46>> >> >> >>

ScenarioARecord ==
  [sentences |-> ScenarioASentences, equivalency |-> ScenarioAEquivalency]

\* ascending lists of the chunk positions 0..n-1
AscLists(n) == {e \in SeqsUpTo(0..(n - 1), n) : IsAscending(e)}

SentencesOf(lens) ==
  [k \in 1..Len(lens) |-> <<LangAt(k), [p \in 1..lens[k] |-> FragAt(p)]>>]

\* the classes of a shape: one ascending list of positions per sentence
ClassesOfShape(lens) ==
  {c \in [1..Len(lens) -> AscLists(MaxRecChunks)] :
     \A k \in 1..Len(lens) : c[k] \in AscLists(lens[k])}

\* the rectangular records of a shape: every class has one entry per
\* sentence
RecordsOf(lens) ==
  {[sentences |-> SentencesOf(lens), equivalency |-> eq] :
     eq \in SeqsUpTo(ClassesOfShape(lens), MaxClasses)}

\* malformed variants of a record: a key is missing, the first pair is
\* not a pair, the first class has no entry for the last sentence
NoEquivalency(r) == [sentences |-> r.sentences]

NoSentences(r) == [equivalency |-> r.equivalency]

BadPair(r) == [r EXCEPT !.sentences[1] = <<@[1]>>]

ShortClass(r) == [r EXCEPT !.equivalency[1] = SubSeq(@, 1, Len(@) - 1)]

Init ==
  /\ FunIdle
  /\ hop = 0 /\ pc = "start" /\ stdout = <<>>
  /\ segs = <<>> /\ data = <<>> /\ d = <<>> /\ t = <<>> /\ pos = 0
  /\ \/ /\ prog = "woi_json_from_text"
        /\ text \in SeqsUpTo(TextAlphabet, MaxTextLen) \cup {ScenarioAText}
        /\ woi_json = <<>>
     \/ /\ prog = "text_from_woi_json" /\ text = <<>>
        /\ \/ woi_json = ScenarioARecord
           \/ \E lens \in Shapes(0, MaxRecLangs, MaxRecChunks) :
                \E r \in RecordsOf(lens) :
                  \/ woi_json = r
                  \/ woi_json = NoEquivalency(r)
                  \/ woi_json = NoSentences(r)
                  \/ Len(r.sentences) >= 1 /\ woi_json = BadPair(r)
                  \/ /\ Len(r.sentences) >= 1 /\ Len(r.equivalency) >= 1
                     /\ woi_json = ShortClass(r)

\* woi_json_from_text.entrypoint up to the for statement
JStart ==
  /\ prog = "woi_json_from_text" /\ pc = "start"
  /\ segs' = PySplit(with_ascii_compatibility_normalized(text), DPIPE, 1, <<>>)
  /\ data' = <<>>
  /\ pos' = 1
  /\ pc' = "loop"
  /\ UNCHANGED <<prog, text, woi_json, d, t, stdout, hop, funvars>>

\* faulty variant: every parsed segment is written out as soon as it is parsed
JIter_eager ==
  /\ prog = "woi_json_from_text" /\ pc = "loop" /\ pos <= Len(segs)
  /\ LET r == PySplit(segs[pos], PIPE, 1, <<>>)
     IN IF Len(r) < 2 THEN pc' = "error" /\ UNCHANGED <<data, pos, stdout>>
        ELSE LET pr == parse(r[2])
             IN IF ~pr.ok THEN pc' = "error" /\ UNCHANGED <<data, pos, stdout>>
                ELSE /\ data' = Append(data, [language |-> r[1],
                                              text_chunks |-> pr.chunks])
                     /\ stdout' = Append(stdout, woi_data_from(data'))
                     /\ pos' = pos + 1
                     /\ pc' = "loop"
  /\ UNCHANGED <<prog, text, segs, woi_json, d, t, hop, funvars>>

\* one iteration of "for e in text.split(...)": r[1] raises IndexError
\* when the segment has no pipe, parse raises ValueError on a bad run
JIter ==
  /\ prog = "woi_json_from_text" /\ pc = "loop" /\ pos <= Len(segs)
  /\ LET r == PySplit(segs[pos], PIPE, 1, <<>>)
     IN IF Len(r) < 2 THEN pc' = "error" /\ UNCHANGED <<data, pos>>
        ELSE LET pr == parse(r[2])
             IN IF ~pr.ok THEN pc' = "error" /\ UNCHANGED <<data, pos>>
                ELSE /\ data' = Append(data, [language |-> r[1],
                                              text_chunks |-> pr.chunks])
                     /\ pos' = pos + 1
                     /\ pc' = "loop"
  /\ UNCHANGED <<prog, text, segs, woi_json, d, t, stdout, hop, funvars>>

\* sys.stdout.write(json.dumps(woi_data_from(data)) + "\n")
JWrite ==
  /\ prog = "woi_json_from_text" /\ pc = "loop" /\ pos > Len(segs)
  /\ stdout' = Append(stdout, woi_data_from(data))
  /\ pc' = "done"
  /\ UNCHANGED <<prog, text, segs, data, pos, woi_json, d, t, hop, funvars>>

\* text_from_woi_json.entrypoint up to the for statement: the iterable
\* data_from_woi_data(...) is evaluated before the first iteration
TStart ==
  /\ prog = "text_from_woi_json" /\ pc = "start"
  /\ LET r == data_from_woi_data(woi_json)
     IN IF r.ok THEN d' = r.data /\ pc' = "loop"
        ELSE d' = <<>> /\ pc' = "error"
  /\ t' = <<>>
  /\ pos' = 1
  /\ UNCHANGED <<prog, text, segs, data, woi_json, stdout, hop, funvars>>

\* t += e["language"] + "|" + textify(e["text_chunks"]) + double pipe
TIter ==
  /\ prog = "text_from_woi_json" /\ pc = "loop" /\ pos <= Len(d)
  /\ t' = t \o d[pos].language \o <<PIPE>> \o textify(d[pos].text_chunks) \o <<DPIPE>>
  /\ pos' = pos + 1
  /\ UNCHANGED <<prog, pc, text, segs, data, woi_json, d, stdout, hop, funvars>>

\* the last separator is cut off and the line is written
TWrite ==
  /\ prog = "text_from_woi_json" /\ pc = "loop" /\ pos > Len(d)
  /\ t' = IF Len(t) > 0 THEN SubSeq(t, 1, Len(t) - 1) ELSE t
  /\ stdout' = Append(stdout, t' \o <<NEWLINE>>)
  /\ pc' = "done"
  /\ UNCHANGED <<prog, text, segs, data, woi_json, d, pos, hop, funvars>>

\* the record written by woi_json_from_text becomes the argument of
\* text_from_woi_json
FeedRecord ==
  /\ prog = "woi_json_from_text" /\ pc = "done" /\ hop = 0
  /\ prog' = "text_from_woi_json"
  /\ woi_json' = stdout[1]
  /\ pc' = "start" /\ hop' = 1 /\ stdout' = <<>>
  /\ d' = <<>> /\ t' = <<>> /\ pos' = 0
  /\ UNCHANGED <<text, segs, data, funvars>>

\* the line written by text_from_woi_json, without its newline, becomes
\* the argument of woi_json_from_text
FeedText ==
  /\ prog = "text_from_woi_json" /\ pc = "done" /\ hop = 0
  /\ prog' = "woi_json_from_text"
  /\ text' = SubSeq(stdout[1], 1, Len(stdout[1]) - 1)
  /\ pc' = "start" /\ hop' = 1 /\ stdout' = <<>>
  /\ segs' = <<>> /\ data' = <<>> /\ pos' = 0
  /\ UNCHANGED <<woi_json, d, t, funvars>>

Next ==
  \/ JStart \/ JIter \/ JWrite
  \/ TStart \/ TIter \/ TWrite
  \/ FeedRecord \/ FeedText

Spec == Init /\ [][Next]_vars

Finished == pc = "done" \/ pc = "error"

\* every class has one entry per sentence, every sentence is a pair
Rectangular(r) ==
  /\ "sentences" \in DOMAIN r /\ "equivalency" \in DOMAIN r
  /\ \A k \in 1..Len(r.sentences) : Len(r.sentences[k]) = 2
  /\ \A c \in 1..Len(r.equivalency) : Len(r.equivalency[c]) = Len(r.sentences)

\* a chunk position of a language occurs in at most one class
OneClassPerPosition(r) ==
  \A c1 \in 1..Len(r.equivalency) : \A c2 \in 1..Len(r.equivalency) :
    \A k \in 1..Len(r.sentences) :
      c1 # c2 => Range(r.equivalency[c1][k]) \cap Range(r.equivalency[c2][k]) = {}

\* the same sentences, the same classes in the same order, entries as sets
SameRecord(a, b) ==
  /\ a.sentences = b.sentences
  /\ Len(a.equivalency) = Len(b.equivalency)
  /\ \A c \in 1..Len(a.equivalency) :
       /\ Len(a.equivalency[c]) = Len(b.equivalency[c])
       /\ \A k \in 1..Len(a.equivalency[c]) :
            Range(a.equivalency[c][k]) = Range(b.equivalency[c][k])

\* C1: a rectangular record with each position in at most one class,
\* rendered by text_from_woi_json and converted back by woi_json_from_text,
\* yields the same record (class entries compared as sets).
C1_RecordRoundTrip ==
  (/\ hop = 1 /\ prog = "woi_json_from_text" /\ Finished
   /\ Rectangular(woi_json) /\ OneClassPerPosition(woi_json))
  => (pc = "done" /\ SameRecord(stdout[1], woi_json))

\* no alternate spelling, and exactly one single pipe in every segment
IsCanonical(s) ==
  /\ \A k \in 1..Len(s) : s[k] # LBRACE /\ s[k] # RBRACE
  /\ LET ss == PySplit(s, DPIPE, 1, <<>>)
     IN \A k \in 1..Len(ss) : Len(PySplit(ss[k], PIPE, 1, <<>>)) = 2

\* C2: a text in canonical notation, parsed by woi_json_from_text and then
\* resolved and rendered by text_from_woi_json, is reproduced exactly; so is
\* the Scenario A text.
C2_TextRoundTrip ==
  (/\ hop = 1 /\ prog = "text_from_woi_json" /\ Finished
   /\ IsCanonical(text))
  => (pc = "done" /\ t = text /\ stdout = <<text \o <<NEWLINE>> >>)

\* zero-based positions of the classes whose entry for sentence si (zero-
\* based) holds the chunk position ci
ClassesOf(r, si, ci) ==
  {c \in 0..(Len(r.equivalency) - 1) :
     /\ si < Len(r.equivalency[c + 1])
     /\ ci \in Range(r.equivalency[c + 1][si + 1])}

SetMin(S) == CHOOSE m \in S : \A m2 \in S : m <= m2

\* C3: the text emitted after a fragment is the subscript encoding of
\* i + 1, i the zero-based position of the first class that holds the chunk
\* position for the language, and the marker when no class holds it.
C3_DisplayConvention ==
  (prog = "text_from_woi_json" /\ pc = "loop") =>
    \A si \in 1..Len(d) : \A ci \in 1..Len(d[si].text_chunks) :
      LET cls == ClassesOf(woi_json, si - 1, ci - 1)
      IN IndexText(d[si].text_chunks[ci].index) =
           IF cls = {} THEN <<XMARK>>
           ELSE subscript_positional_notation(SetMin(cls) + 1)

\* C9: an invocation that fails has written nothing, and output is written
\* once, when the conversion is complete.
C9_NoPartialOutput ==
  /\ (pc = "error" => stdout = <<>>)
  /\ (stdout # <<>> => pc = "done" /\ Len(stdout) = 1)

\* a segment fails after an earlier segment was converted
C9_Witness ==
  /\ prog = "woi_json_from_text" /\ hop = 0
  /\ pc = "error"
  /\ Len(data) >= 1
  /\ stdout = <<>>

====
